---- MODULE Spec2Model ----
(***************************************************************************)
(* Model of the market-data streaming decoder of kite_connect (src/ws.rs): *)
(* the binary frame decoder, the background read task and the channel      *)
(* between the task and its consumers.                                     *)
(*                                                                         *)
(* A byte buffer is a sequence of 0..255 (1-indexed); a cursor position is *)
(* a 0-based offset as in std::io::Cursor.  An f64 price raw/divisor is    *)
(* kept as an exact decimal [int, frac] with frac counted in 1e-7 units:   *)
(* the three divisors all divide 10^7, and distinct such decimals are      *)
(* distinct f64 values for every u32 raw value.                            *)
(***************************************************************************)
EXTENDS Integers, Sequences, FiniteSets, TLC

VARIABLES
    task,              \* background task: "reading", "decoding", "finished", "panicked"
    cursor,            \* Cursor<Bytes> of the frame being decoded: [buf, pos]
    remaining,         \* iterations left of `for _ in 0..total_packets`
    chan,              \* Ticks in the channel, not yet received
    receivers,         \* number of live Receiver handles
    sent,              \* history: every Tick tx.send accepted, in order
    delivered,         \* history: every Tick a consumer received, in order
    inbound,           \* history: every item read.next() yielded, in order
    frame,             \* pure-decoder harness: the frame handed to decode_n_send_bytes
    decoded,           \* pure-decoder harness: what decoding that frame did
    instrument_token,  \* get_divisor harness: the argument
    divisor,           \* get_divisor harness: the result
    websocket,         \* what web_socket returned: "pending", "Ok", "Err"
    ticker,            \* the caller's KiteTicker: "none", "held", "dropped"
    write_stream,      \* outbound half: [writable, frames written so far]
    request,           \* the argument of send / send_raw
    result,            \* what send / send_raw returned: "none", "Ok", "Err"
    seen               \* consumers harness: the Ticks each consumer received

vars == <<task, cursor, remaining, chan, receivers, sent, delivered, inbound,
          frame, decoded, instrument_token, divisor,
          websocket, ticker, write_stream, request, result, seen>>

-----------------------------------------------------------------------------
(* Bounds of the model *)

\* Records per frame in the frames the pure-decoder specification enumerates.
MaxRecords == 2
\* Items the inbound half yields before the model stops reading.
MaxItems == 2
\* Receiver handles alive at the same time.
MaxReceivers == 2
\* Frames a caller writes on the outbound half of one connection.
MaxSends == 1
\* Instrument tokens in the list of a request.
MaxTokens == 2

-----------------------------------------------------------------------------
(* Fixed-point prices *)

PRICE_SCALE == 10000000

\* raw as f64 / divisor, as an exact decimal.
F64Div(raw, d) ==
    [int |-> raw \div d, frac |-> (raw % d) * (PRICE_SCALE \div d)]

CDS_SEGMENT == 3
BCD_SEGMENT == 6

\* Variant: the segment taken from the low 16 bits.
get_divisor_low16(tok) ==
    LET segment == tok % 65536
    IN  IF segment = CDS_SEGMENT THEN 10000000
        ELSE IF segment = BCD_SEGMENT THEN 10000
        ELSE 100

\* instrument_token & 0xff selects the divisor.
get_divisor(tok) ==
    LET segment == tok % 256
    IN  IF segment = CDS_SEGMENT THEN 10000000
        ELSE IF segment = BCD_SEGMENT THEN 10000
        ELSE 100

-----------------------------------------------------------------------------
(* std::io::Cursor over the frame's bytes, read through byteorder *)

NewCursor(bytes) == [buf |-> bytes, pos |-> 0]

\* Bytes left to read; a position past the end leaves none.
Avail(c) == IF c.pos >= Len(c.buf) THEN 0 ELSE Len(c.buf) - c.pos

\* Cursor::read_exact leaves the cursor at the end of the buffer on failure.
AtEof(c) == [c EXCEPT !.pos = Len(c.buf)]

\* cursor.seek(SeekFrom::Current(n)): never fails for n >= 0, and may leave
\* the position past the end of the buffer.
seek(c, n) == [c EXCEPT !.pos = c.pos + n]

\* cursor.read_u16::<BigEndian>()
read_u16(c) ==
    IF Avail(c) >= 2
    THEN [ok |-> TRUE,
          val |-> c.buf[c.pos + 1] * 256 + c.buf[c.pos + 2],
          cur |-> seek(c, 2)]
    ELSE [ok |-> FALSE, val |-> 0, cur |-> AtEof(c)]

\* cursor.read_u32::<BigEndian>()
read_u32(c) ==
    IF Avail(c) >= 4
    THEN [ok |-> TRUE,
          val |-> ((c.buf[c.pos + 1] * 256 + c.buf[c.pos + 2]) * 256
                      + c.buf[c.pos + 3]) * 256 + c.buf[c.pos + 4],
          cur |-> seek(c, 4)]
    ELSE [ok |-> FALSE, val |-> 0, cur |-> AtEof(c)]

\* n consecutive `cursor.read_u32::<BigEndian>().unwrap()`: the values read,
\* or ok = FALSE when one of the reads fails (the unwrap then panics).
RECURSIVE ReadWords(_, _, _)
ReadWords(c, n, acc) ==
    IF n = 0 THEN [ok |-> TRUE, vals |-> acc, cur |-> c]
    ELSE LET r == read_u32(c)
         IN  IF r.ok THEN ReadWords(r.cur, n - 1, Append(acc, r.val))
             ELSE [ok |-> FALSE, vals |-> acc, cur |-> r.cur]

-----------------------------------------------------------------------------
(* The record decoders.  Each returns the cursor it leaves, the Ticks it     *)
(* hands to tx.send (none or one) and whether an unwrap panicked.            *)

Panicked(c) == [cur |-> c, out |-> <<>>, panicked |-> TRUE]
Emitted(c, tick) == [cur |-> c, out |-> <<tick>>, panicked |-> FALSE]
Skipped(c) == [cur |-> c, out |-> <<>>, panicked |-> FALSE]

ConnectionClosed == [kind |-> "ConnectionClosed"]

\* Variant: the two fields read in the other order.
send_ltp_quote_packet_swapped(c) ==
    LET r == ReadWords(c, 2, <<>>)
    IN  IF ~r.ok THEN Panicked(r.cur)
        ELSE Emitted(r.cur,
                 [kind |-> "LtpQuote",
                  instrument_token |-> r.vals[2],
                  last_price |-> F64Div(r.vals[1], get_divisor(r.vals[2]))])

\* u32 instrument token, u32 last price.
send_ltp_quote_packet(c) ==
    LET r == ReadWords(c, 2, <<>>)
    IN  IF ~r.ok THEN Panicked(r.cur)
        ELSE Emitted(r.cur,
                 [kind |-> "LtpQuote",
                  instrument_token |-> r.vals[1],
                  last_price |-> F64Div(r.vals[2], get_divisor(r.vals[1]))])

\* Variant: 4 trailing bytes skipped whatever the record's length.
send_indices_quote_packet_skip4(c, packet_len) ==
    LET r == ReadWords(c, 6, <<>>)
        d == get_divisor(r.vals[1])
    IN  IF ~r.ok THEN Panicked(r.cur)
        ELSE Emitted(seek(r.cur, 4),
                 [kind |-> "IndicesQuote",
                  instrument_token |-> r.vals[1],
                  last_price |-> F64Div(r.vals[2], d),
                  ohlc |-> [open  |-> F64Div(r.vals[5], d),
                            high  |-> F64Div(r.vals[3], d),
                            low   |-> F64Div(r.vals[4], d),
                            close |-> F64Div(r.vals[6], d)]])

\* Variant: the four prices after the last price taken as open, high, low,
\* close in that order.
send_indices_quote_packet_ohlc(c, packet_len) ==
    LET r == ReadWords(c, 6, <<>>)
        d == get_divisor(r.vals[1])
    IN  IF ~r.ok THEN Panicked(r.cur)
        ELSE Emitted(seek(r.cur, IF packet_len = 32 THEN 8 ELSE 4),
                 [kind |-> "IndicesQuote",
                  instrument_token |-> r.vals[1],
                  last_price |-> F64Div(r.vals[2], d),
                  ohlc |-> [open  |-> F64Div(r.vals[3], d),
                            high  |-> F64Div(r.vals[4], d),
                            low   |-> F64Div(r.vals[5], d),
                            close |-> F64Div(r.vals[6], d)]])

\* u32 token, last price, high, low, open, close, then 4 or 8 bytes skipped.
send_indices_quote_packet(c, packet_len) ==
    LET r == ReadWords(c, 6, <<>>)
        d == get_divisor(r.vals[1])
    IN  IF ~r.ok THEN Panicked(r.cur)
        ELSE Emitted(seek(r.cur, IF packet_len = 32 THEN 8 ELSE 4),
                 [kind |-> "IndicesQuote",
                  instrument_token |-> r.vals[1],
                  last_price |-> F64Div(r.vals[2], d),
                  ohlc |-> [open  |-> F64Div(r.vals[5], d),
                            high  |-> F64Div(r.vals[3], d),
                            low   |-> F64Div(r.vals[4], d),
                            close |-> F64Div(r.vals[6], d)]])

\* The 44-byte prefix shared by quote and full records.
PartialQuoteOf(w) ==
    LET d == get_divisor(w[1])
    IN  [instrument_token     |-> w[1],
         last_price           |-> F64Div(w[2], d),
         last_traded_quantity |-> w[3],
         average_traded_price |-> F64Div(w[4], d),
         volume_traded        |-> w[5],
         total_buy_quantity   |-> w[6],
         total_sell_quantity  |-> w[7],
         ohlc |-> [open  |-> F64Div(w[8], d),
                   high  |-> F64Div(w[9], d),
                   low   |-> F64Div(w[10], d),
                   close |-> F64Div(w[11], d)]]

\* Variant: the sixth wire entry counted as buy side.
DepthEntryStep_six(c, i, depth, d) ==
    LET qty    == read_u32(c)
        price  == read_u32(qty.cur)
        orders == read_u16(price.cur)
    IN  IF qty.ok /\ price.ok /\ orders.ok
        THEN LET entry == [quantity |-> qty.val,
                           price    |-> F64Div(price.val, d),
                           orders   |-> orders.val]
             IN  [cur   |-> seek(orders.cur, 2),
                  depth |-> IF i < 6
                            THEN [depth EXCEPT !.buy = Append(@, entry)]
                            ELSE [depth EXCEPT !.sell = Append(@, entry)]]
        ELSE [cur |-> orders.cur, depth |-> depth]

\* One iteration of `for i in 0..10`: the three reads are all evaluated, and
\* an entry is pushed only when all three succeeded.
DepthEntryStep(c, i, depth, d) ==
    LET qty    == read_u32(c)
        price  == read_u32(qty.cur)
        orders == read_u16(price.cur)
    IN  IF qty.ok /\ price.ok /\ orders.ok
        THEN LET entry == [quantity |-> qty.val,
                           price    |-> F64Div(price.val, d),
                           orders   |-> orders.val]
             IN  [cur   |-> seek(orders.cur, 2),
                  depth |-> IF i < 5
                            THEN [depth EXCEPT !.buy = Append(@, entry)]
                            ELSE [depth EXCEPT !.sell = Append(@, entry)]]
        ELSE [cur |-> orders.cur, depth |-> depth]

RECURSIVE DepthLoop(_, _, _, _)
DepthLoop(c, i, depth, d) ==
    IF i = 10 THEN [cur |-> c, depth |-> depth]
    ELSE LET s == DepthEntryStep(c, i, depth, d)
         IN  DepthLoop(s.cur, i + 1, s.depth, d)

\* Variant: in a full record the open interest is stored as the volume.
send_quote_n_full_packet_oi(c, packet_len) ==
    LET r == ReadWords(c, 11, <<>>)
    IN  IF ~r.ok THEN Panicked(r.cur)
        ELSE LET quote == PartialQuoteOf(r.vals)
             IN  IF packet_len = 184
                 THEN LET x == ReadWords(r.cur, 5, <<>>)
                          b == DepthLoop(x.cur, 0, [buy |-> <<>>, sell |-> <<>>],
                                         get_divisor(r.vals[1]))
                      IN  IF ~x.ok THEN Panicked(x.cur)
                          ELSE Emitted(b.cur,
                                   [kind |-> "FullQuote",
                                    quote |-> [quote EXCEPT !.volume_traded = x.vals[2]],
                                    last_trade_time    |-> x.vals[1],
                                    oi                 |-> x.vals[2],
                                    oi_day_high        |-> x.vals[3],
                                    oi_day_low         |-> x.vals[4],
                                    exchange_timestamp |-> x.vals[5],
                                    depth |-> b.depth])
                 ELSE Emitted(r.cur, [kind |-> "PartialQuote", quote |-> quote])

send_quote_n_full_packet(c, packet_len) ==
    LET r == ReadWords(c, 11, <<>>)
    IN  IF ~r.ok THEN Panicked(r.cur)
        ELSE LET quote == PartialQuoteOf(r.vals)
             IN  IF packet_len = 184
                 THEN LET x == ReadWords(r.cur, 5, <<>>)
                          b == DepthLoop(x.cur, 0, [buy |-> <<>>, sell |-> <<>>],
                                         get_divisor(r.vals[1]))
                      IN  IF ~x.ok THEN Panicked(x.cur)
                          ELSE Emitted(b.cur,
                                   [kind |-> "FullQuote",
                                    quote |-> quote,
                                    last_trade_time    |-> x.vals[1],
                                    oi                 |-> x.vals[2],
                                    oi_day_high        |-> x.vals[3],
                                    oi_day_low         |-> x.vals[4],
                                    exchange_timestamp |-> x.vals[5],
                                    depth |-> b.depth])
                 ELSE Emitted(r.cur, [kind |-> "PartialQuote", quote |-> quote])

\* Variant: a record of unknown length is not skipped.
decode_packet_noskip(c) ==
    LET len == read_u16(c)
    IN  IF ~len.ok THEN Panicked(len.cur)
        ELSE IF len.val = 8 THEN send_ltp_quote_packet(len.cur)
        ELSE IF len.val \in {28, 32} THEN send_indices_quote_packet(len.cur, len.val)
        ELSE IF len.val \in {44, 184} THEN send_quote_n_full_packet(len.cur, len.val)
        ELSE Skipped(len.cur)

\* The body of `for _ in 0..total_packets`: one length-prefixed record.
decode_packet(c) ==
    LET len == read_u16(c)
    IN  IF ~len.ok THEN Panicked(len.cur)
        ELSE IF len.val = 8 THEN send_ltp_quote_packet(len.cur)
        ELSE IF len.val \in {28, 32} THEN send_indices_quote_packet(len.cur, len.val)
        ELSE IF len.val \in {44, 184} THEN send_quote_n_full_packet(len.cur, len.val)
        ELSE Skipped(seek(len.cur, len.val))

RECURSIVE DecodeLoop(_, _, _)
DecodeLoop(c, n, out) ==
    IF n = 0 THEN [ticks |-> out, panicked |-> FALSE, cur |-> c]
    ELSE LET s == decode_packet(c)
         IN  IF s.panicked
             THEN [ticks |-> out, panicked |-> TRUE, cur |-> s.cur]
             ELSE DecodeLoop(s.cur, n - 1, out \o s.out)

\* decode_n_send_bytes run to its end on one frame: the Ticks it hands to
\* tx.send, in order, and whether it panicked.
decode_n_send_bytes(bytes) ==
    IF Len(bytes) < 2
    THEN [ticks |-> <<>>, panicked |-> FALSE, cur |-> NewCursor(bytes)]
    ELSE LET total_packets == read_u16(NewCursor(bytes))
         IN  DecodeLoop(total_packets.cur, total_packets.val, <<>>)

-----------------------------------------------------------------------------
(* The frames the inbound half delivers.  A frame is described by its record *)
(* count field, its records (declared length and a seed that fixes the field *)
(* values) and the number of bytes missing at its end; WireFrame lays it out *)
(* in the wire format the decoder reads: big-endian, count-prefixed, every   *)
(* record length-prefixed.                                                   *)

KnownLens == {8, 28, 32, 44, 184}
UnknownLens == {0, 5, 12}
Seeds == {0, 1, 2}

\* Seed 0 is the instrument of the documentation's example (segment 1);
\* seeds 1 and 2 are in the two segments with their own divisor.
WireToken(s) == IF s = 0 THEN 408065 ELSE IF s = 1 THEN 16909059 ELSE 774

\* The j-th 32-bit field after the token: all different within a record and
\* between seeds, using all four bytes.
WireWord(s, j) ==
    IF s = 0 /\ j = 1 THEN 141295
    ELSE 16909060 + j * 16843009 + s * 268435456

BE16(n) == <<n \div 256, n % 256>>
BE32(n) == <<n \div 16777216, (n \div 65536) % 256, (n \div 256) % 256, n % 256>>

RECURSIVE WireWords(_, _, _)
WireWords(s, from, to) ==
    IF from > to THEN <<>> ELSE BE32(WireWord(s, from)) \o WireWords(s, from + 1, to)

\* Depth entry i (0..9): u32 quantity, u32 price, u16 orders, 2 padding bytes.
WireDepthQty(s, i) == WireWord(s, 16 + 3 * i)
WireDepthPrice(s, i) == WireWord(s, 17 + 3 * i)
WireDepthOrders(s, i) == WireWord(s, 18 + 3 * i) % 65536
WireDepthEntry(s, i) ==
    BE32(WireDepthQty(s, i)) \o BE32(WireDepthPrice(s, i))
        \o BE16(WireDepthOrders(s, i)) \o <<85 + i, 113>>

RECURSIVE WireDepth(_, _)
WireDepth(s, i) ==
    IF i = 10 THEN <<>> ELSE WireDepthEntry(s, i) \o WireDepth(s, i + 1)

\* The L bytes of a record after its length field.
WirePayload(L, s) ==
    IF L = 8 THEN BE32(WireToken(s)) \o WireWords(s, 1, 1)
    ELSE IF L = 28 THEN BE32(WireToken(s)) \o WireWords(s, 1, 6)
    ELSE IF L = 32 THEN BE32(WireToken(s)) \o WireWords(s, 1, 7)
    ELSE IF L = 44 THEN BE32(WireToken(s)) \o WireWords(s, 1, 10)
    ELSE IF L = 184 THEN BE32(WireToken(s)) \o WireWords(s, 1, 15) \o WireDepth(s, 0)
    ELSE [k \in 1..L |-> (37 * k + 11 * s + 64) % 128]

WireRecord(r) == BE16(r.len) \o WirePayload(r.len, r.seed)

RECURSIVE WireRecords(_)
WireRecords(recs) ==
    IF recs = <<>> THEN <<>> ELSE WireRecord(Head(recs)) \o WireRecords(Tail(recs))

WireFrame(f) ==
    LET full == BE16(f.count) \o WireRecords(f.recs)
    IN  SubSeq(full, 1, Len(full) - f.cut)

Rec(L, s) == [len |-> L, seed |-> s]

RECURSIVE SeqsUpTo(_, _)
SeqsUpTo(S, n) ==
    IF n = 0 THEN {<<>>}
    ELSE LET shorter == SeqsUpTo(S, n - 1)
         IN  shorter \cup {Append(q, x) : q \in shorter, x \in S}

\* Every record the model knows, and the ones frames of several records are
\* built from: every seed for the shortest and the longest record, one seed for
\* each other length.
AllRecords == {Rec(L, s) : L \in KnownLens \cup UnknownLens, s \in Seeds}

RecChoices ==
    {Rec(L, s) : L \in {8, 184}, s \in Seeds}
        \cup {Rec(28, 1), Rec(32, 2), Rec(44, 0), Rec(0, 0), Rec(5, 1), Rec(12, 2)}

\* Frames with every record complete; the count field is the number of
\* records, one less (bytes follow the last record decoded) or one more
\* (the frame ends before the last record announced).
CountsFor(q) == {n \in {Len(q) - 1, Len(q), Len(q) + 1} : n >= 0}

WholeFrames ==
    UNION {{[count |-> n, recs |-> q, cut |-> 0] : n \in CountsFor(q)} :
              q \in SeqsUpTo(RecChoices, MaxRecords) \cup {<<r>> : r \in AllRecords}}

\* Frames whose last record is cut short: between 1 and len + 1 bytes are
\* missing, so the frame ends inside the record or inside its length field.
\* The records before it are complete.
LeadChoices == {Rec(8, 0), Rec(44, 1), Rec(5, 2)}

TruncatedFrames ==
    UNION {{[count |-> Len(q) + 1, recs |-> Append(q, r), cut |-> k] :
               k \in 1..(r.len + 1)} :
              q \in SeqsUpTo(LeadChoices, MaxRecords - 1), r \in AllRecords}

\* Frames of 0 and 1 byte: not even a record count.
TinyFrames == {[count |-> 0, recs |-> <<>>, cut |-> k] : k \in {1, 2}}

Frames == WholeFrames \cup TruncatedFrames \cup TinyFrames

-----------------------------------------------------------------------------
(* The state of an open connection, as web_socket returns it: the task      *)
(* spawned and reading, the channel empty, one Receiver.                    *)

NoCursor == [buf |-> <<>>, pos |-> 0]
NoFrame == [count |-> 0, recs |-> <<>>, cut |-> 0]
NotDecoded == [done |-> FALSE, ticks |-> <<>>, panicked |-> FALSE, pos |-> 0]

NothingSeen == [c \in 1..MaxReceivers |-> <<>>]

ReadSide ==
    /\ task = "reading"
    /\ cursor = NoCursor
    /\ remaining = 0
    /\ chan = <<>>
    /\ receivers = 1
    /\ sent = <<>>
    /\ delivered = <<>>
    /\ inbound = <<>>
    /\ seen = NothingSeen

ConnectionOpen ==
    /\ ReadSide
    /\ websocket = "Ok"
    /\ ticker = "held"
    /\ write_stream = [writable |-> TRUE, frames |-> <<>>]

NoRequest == [kind |-> "none"]

connVars ==
    <<task, cursor, remaining, chan, receivers, sent, delivered, inbound, seen>>
harnessVars == <<frame, decoded, instrument_token, divisor>>
callerVars == <<websocket, ticker, write_stream, request, result>>

-----------------------------------------------------------------------------
(* Specification of the decoder alone: one frame, decoded to its end.       *)

InitDecode ==
    /\ ConnectionOpen
    /\ frame \in Frames
    /\ decoded = NotDecoded
    /\ instrument_token = 0
    /\ divisor = 0
    /\ request = NoRequest
    /\ result = "none"

DecodeFrame ==
    /\ ~decoded.done
    /\ LET r == decode_n_send_bytes(WireFrame(frame))
       IN  decoded' = [done |-> TRUE, ticks |-> r.ticks,
                       panicked |-> r.panicked, pos |-> r.cur.pos]
    /\ UNCHANGED <<connVars, callerVars, frame, instrument_token, divisor>>

NextDecode == DecodeFrame

SpecDecode == InitDecode /\ [][NextDecode]_vars

-----------------------------------------------------------------------------
(* Specification of the decoder on a pair of frames: a 44-byte record and a *)
(* 184-byte record that starts with the same 44 bytes and goes on with 140  *)
(* bytes chosen independently of them.                                      *)

TailShifts == 0..7

\* The 44 bytes of a quote record, and 140 bytes to follow them.
PrefixBytes(s) == WirePayload(44, s)
TailBytes(s, k) ==
    [j \in 1..140 |-> (WirePayload(184, s)[44 + j] + k) % 128]

PrefixPairs ==
    {[prefix |-> s, tail |-> t, shift |-> k] :
        s \in Seeds, t \in Seeds, k \in TailShifts}

StandaloneFrame(f) == BE16(1) \o BE16(44) \o PrefixBytes(f.prefix)
FullFrame(f) ==
    BE16(1) \o BE16(184) \o PrefixBytes(f.prefix) \o TailBytes(f.tail, f.shift)

InitPair ==
    /\ ConnectionOpen
    /\ frame \in PrefixPairs
    /\ decoded = NotDecoded
    /\ instrument_token = 0
    /\ divisor = 0
    /\ request = NoRequest
    /\ result = "none"

\* decode_n_send_bytes on the one frame, then on the other.
DecodePair ==
    /\ ~decoded.done
    /\ LET a == decode_n_send_bytes(StandaloneFrame(frame))
           b == decode_n_send_bytes(FullFrame(frame))
       IN  decoded' = [done |-> TRUE, ticks |-> a.ticks \o b.ticks,
                       panicked |-> a.panicked \/ b.panicked, pos |-> b.cur.pos]
    /\ UNCHANGED <<connVars, callerVars, frame, instrument_token, divisor>>

NextPair == DecodePair

SpecPair == InitPair /\ [][NextPair]_vars

-----------------------------------------------------------------------------
(* Specification of get_divisor alone.                                      *)

\* The bits of a token above its low byte.
HighParts == {0, 1, 3, 6, 1594, 8388607}
Tokens == {hi * 256 + lo : hi \in HighParts, lo \in 0..255}

InitDivisor ==
    /\ ConnectionOpen
    /\ frame = NoFrame
    /\ decoded = NotDecoded
    /\ instrument_token \in Tokens
    /\ divisor = 0
    /\ request = NoRequest
    /\ result = "none"

ApplyDivisor ==
    /\ divisor = 0
    /\ divisor' = get_divisor(instrument_token)
    /\ UNCHANGED <<connVars, callerVars, frame, decoded, instrument_token>>

NextDivisor == ApplyDivisor

SpecDivisor == InitDivisor /\ [][NextDivisor]_vars

-----------------------------------------------------------------------------
(* The outbound side.  KiteTicker::send encodes a Req as JSON text and      *)
(* send_raw writes a message on the outbound half.  Text is a sequence of   *)
(* one-character strings; a serde_json::Value is a record tagged by t.      *)

Digit == <<"0", "1", "2", "3", "4", "5", "6", "7", "8", "9">>

\* The decimal digits of an unsigned integer, as serde_json writes a number.
RECURSIVE FormatU32(_)
FormatU32(n) ==
    IF n < 10 THEN <<Digit[n + 1]>>
    ELSE Append(FormatU32(n \div 10), Digit[(n % 10) + 1])

Number(n) == [t |-> "Number", n |-> n]
String(cs) == [t |-> "String", s |-> cs]
Array(items) == [t |-> "Array", items |-> items]
\* entries: a sequence of <<key, value>>, in the order the map iterates them.
Object(entries) == [t |-> "Object", entries |-> entries]

\* Variant: the list is serialized back to front.
SerializeTokens_rev(instrument_tokens) ==
    Array([i \in 1..Len(instrument_tokens) |->
             Number(instrument_tokens[Len(instrument_tokens) + 1 - i])])

\* Serialize for &[u32]: an array of the numbers, in the order of the slice.
SerializeTokens(instrument_tokens) ==
    Array([i \in 1..Len(instrument_tokens) |-> Number(instrument_tokens[i])])

\* The variant names of ReqMode.
VariantName(mode) ==
    CASE mode = "Ltp" -> <<"L", "t", "p">>
      [] mode = "Quote" -> <<"Q", "u", "o", "t", "e">>
      [] mode = "Full" -> <<"F", "u", "l", "l">>

LowerChar(c) ==
    CASE c = "L" -> "l" [] c = "Q" -> "q" [] c = "F" -> "f" [] OTHER -> c

\* Variant: the variant name is written as it is declared.
Lowercase_keep(cs) == cs

\* #[serde(rename_all = "lowercase")]
Lowercase(cs) == [i \in 1..Len(cs) |-> LowerChar(cs[i])]

\* Serialize for ReqMode: a unit variant is written as its renamed name.
SerializeMode(mode) == String(Lowercase(VariantName(mode)))

StrA == <<"a">>
StrV == <<"v">>
StrSubscribe == <<"s", "u", "b", "s", "c", "r", "i", "b", "e">>
StrUnsubscribe == <<"u", "n">> \o StrSubscribe
StrMode == <<"m", "o", "d", "e">>

\* serde_json::json!({ "a": .., "v": .. }) for each Req.  The map iterates
\* "a" before "v" both in key order and in insertion order.
json(req) ==
    CASE req.kind = "Subscribe" ->
           Object(<< <<StrA, String(StrSubscribe)>>,
                     <<StrV, SerializeTokens(req.instrument_tokens)>> >>)
      [] req.kind = "Unsubscribe" ->
           Object(<< <<StrA, String(StrUnsubscribe)>>,
                     <<StrV, SerializeTokens(req.instrument_tokens)>> >>)
      [] req.kind = "Mode" ->
           Object(<< <<StrA, String(StrMode)>>,
                     <<StrV, Array(<<SerializeMode(req.mode),
                                     SerializeTokens(req.instrument_tokens)>>)>> >>)

\* A JSON string literal.  The strings written here hold letters only, so
\* nothing is escaped.
Quoted(cs) == <<"\"">> \o cs \o <<"\"">>

\* Value::to_string(): compact JSON, no white space.
RECURSIVE to_string(_), JoinValues(_), JoinEntries(_)
to_string(v) ==
    CASE v.t = "Number" -> FormatU32(v.n)
      [] v.t = "String" -> Quoted(v.s)
      [] v.t = "Array" -> <<"[">> \o JoinValues(v.items) \o <<"]">>
      [] v.t = "Object" -> <<"{">> \o JoinEntries(v.entries) \o <<"}">>

JoinValues(items) ==
    IF Len(items) = 0 THEN <<>>
    ELSE IF Len(items) = 1 THEN to_string(items[1])
    ELSE to_string(items[1]) \o <<",">> \o JoinValues(Tail(items))

JoinEntries(entries) ==
    IF Len(entries) = 0 THEN <<>>
    ELSE LET e == entries[1]
             one == Quoted(e[1]) \o <<":">> \o to_string(e[2])
         IN  IF Len(entries) = 1 THEN one
             ELSE one \o <<",">> \o JoinEntries(Tail(entries))

Text(cs) == [kind |-> "Text", text |-> cs]
NoMessage == [kind |-> "none", text |-> <<>>]

\* `let msg = match req { .. }` of send.
ReqMessage(req) == Text(to_string(json(req)))

\* Variant: the result of the write is dropped and Ok(()) returned.
send_raw_swallow(req) ==
    /\ result' = "Ok"
    /\ write_stream' = IF write_stream.writable
                       THEN [write_stream EXCEPT !.frames = Append(@, req)]
                       ELSE write_stream

\* self.write_stream.send(req).await?; Ok(())
send_raw(req) ==
    IF write_stream.writable
    THEN /\ write_stream' = [write_stream EXCEPT !.frames = Append(@, req)]
         /\ result' = "Ok"
    ELSE /\ result' = "Err"
         /\ UNCHANGED write_stream

send(req) == send_raw(ReqMessage(req))

\* The requests and raw messages a caller sends in the specification of send.
TokenChoices == {0, 408065, 884737, 2147483647}
TokenLists == SeqsUpTo(TokenChoices, MaxTokens)
ReqModes == {"Ltp", "Quote", "Full"}

Req(kind, mode, instrument_tokens) ==
    [kind |-> kind, mode |-> mode, instrument_tokens |-> instrument_tokens,
     msg |-> NoMessage]
Raw(msg) ==
    [kind |-> "Raw", mode |-> "none", instrument_tokens |-> <<>>, msg |-> msg]

Requests ==
    {Req(k, "none", l) : k \in {"Subscribe", "Unsubscribe"}, l \in TokenLists}
    \cup {Req("Mode", m, l) : m \in ReqModes, l \in TokenLists}
RawRequests ==
    {Raw(Text(<<"{", "}">>)), Raw([kind |-> "Ping", text |-> <<>>])}

InitSend ==
    /\ ReadSide
    /\ websocket = "Ok"
    /\ ticker = "held"
    /\ write_stream \in [writable : BOOLEAN, frames : {<<>>}]
    /\ frame = NoFrame
    /\ decoded = NotDecoded
    /\ instrument_token = 0
    /\ divisor = 0
    /\ request \in Requests \cup RawRequests
    /\ result = "none"

\* ticker.send(req).await
Send ==
    /\ ticker = "held"
    /\ request.kind \in {"Subscribe", "Unsubscribe", "Mode"}
    /\ result = "none"
    /\ send(request)
    /\ UNCHANGED <<connVars, harnessVars, websocket, ticker, request>>

\* ticker.send_raw(msg).await
SendRaw ==
    /\ ticker = "held"
    /\ request.kind = "Raw"
    /\ result = "none"
    /\ send_raw(request.msg)
    /\ UNCHANGED <<connVars, harnessVars, websocket, ticker, request>>

NextSend == Send \/ SendRaw

SpecSend == InitSend /\ [][NextSend]_vars

-----------------------------------------------------------------------------
(* The connection: the background task handle_read_stream, the channel and  *)
(* the consumers.  decode_n_send_bytes runs on the task while consumers     *)
(* receive on their own threads, so the task takes one step per record and  *)
(* a consumer may act between two records of a frame.                       *)

\* The binary frames the peer sends in this specification.
FeedFrames ==
    { [count |-> 1, recs |-> <<Rec(8, 0)>>, cut |-> 0],
      [count |-> 2, recs |-> <<Rec(8, 1), Rec(184, 0)>>, cut |-> 0],
      [count |-> 2, recs |-> <<Rec(28, 1), Rec(32, 2)>>, cut |-> 0],
      [count |-> 2, recs |-> <<Rec(5, 1), Rec(8, 2)>>, cut |-> 0],
      [count |-> 2, recs |-> <<Rec(8, 0), Rec(44, 1)>>, cut |-> 10],
      [count |-> 1, recs |-> <<Rec(184, 2)>>, cut |-> 30],
      [count |-> 2, recs |-> <<Rec(8, 2)>>, cut |-> 0],
      [count |-> 0, recs |-> <<>>, cut |-> 1],
      [count |-> 0, recs |-> <<>>, cut |-> 2] }

Item(kind) == [kind |-> kind, frame |-> NoFrame]
BinaryItem(f) == [kind |-> "Binary", frame |-> f]

\* After a Close frame the peer sends no further frame (RFC 6455, 5.5.1):
\* the inbound half then yields only a closed-connection error or its end.
CloseSeen == \E i \in 1..Len(inbound) : inbound[i].kind = "Close"

\* Variant: items are read whatever became of the task.
CanRead_any ==
    task \in {"reading", "finished", "panicked"} /\ Len(inbound) < MaxItems

\* read.next().await yields one more item.
CanRead == task = "reading" /\ Len(inbound) < MaxItems
CanReadFrame == CanRead /\ ~CloseSeen

\* Variant: a Tick is queued in front of the ones waiting.
SendAll_front(ticks) ==
    IF receivers > 0
    THEN chan' = ticks \o chan /\ sent' = sent \o ticks
    ELSE UNCHANGED <<chan, sent>>

\* tx.send(tick): queued while a Receiver lives, an error (logged) otherwise.
SendAll(ticks) ==
    IF receivers > 0
    THEN chan' = chan \o ticks /\ sent' = sent \o ticks
    ELSE UNCHANGED <<chan, sent>>

\* Variant: the result of tx.send is unwrapped.
SendPanics_unwrap(ticks) == ticks # <<>> /\ receivers = 0

\* if let Err(err) = tx.send(..) { eprintln!(..) }: a refused Tick is logged
\* and the caller goes on; no send unwinds the task.
SendPanics(ticks) == FALSE

Init ==
    /\ ConnectionOpen
    /\ frame = NoFrame
    /\ decoded = NotDecoded
    /\ instrument_token = 0
    /\ divisor = 0
    /\ request = NoRequest
    /\ result = "none"

\* Variant: no length check before the record count is read and unwrapped.
ReadBinary_nocheck(f) ==
    /\ CanReadFrame
    /\ inbound' = Append(inbound, BinaryItem(f))
    /\ LET bytes == WireFrame(f)
           total_packets == read_u16(NewCursor(bytes))
       IN  IF ~total_packets.ok
           THEN task' = "panicked" /\ UNCHANGED <<cursor, remaining>>
           ELSE IF total_packets.val = 0
           THEN UNCHANGED <<task, cursor, remaining>>
           ELSE /\ task' = "decoding"
                /\ cursor' = total_packets.cur
                /\ remaining' = total_packets.val
    /\ UNCHANGED <<chan, receivers, sent, delivered, harnessVars, callerVars, seen>>

\* Message::Binary(bytes) => decode_n_send_bytes(bytes, &tx), up to the
\* first iteration of its loop.
ReadBinary(f) ==
    /\ CanReadFrame
    /\ inbound' = Append(inbound, BinaryItem(f))
    /\ LET bytes == WireFrame(f)
           total_packets == read_u16(NewCursor(bytes))
       IN  IF Len(bytes) < 2 \/ total_packets.val = 0
           THEN UNCHANGED <<task, cursor, remaining>>
           ELSE /\ task' = "decoding"
                /\ cursor' = total_packets.cur
                /\ remaining' = total_packets.val
    /\ UNCHANGED <<chan, receivers, sent, delivered, harnessVars, callerVars, seen>>

\* Variant: a panic takes back what is still queued.
DecodeRecord_rollback ==
    /\ task = "decoding"
    /\ LET s == decode_packet(cursor)
       IN  IF s.panicked \/ SendPanics(s.out)
           THEN /\ task' = "panicked"
                /\ cursor' = NoCursor
                /\ remaining' = 0
                /\ chan' = <<>>
                /\ UNCHANGED sent
           ELSE /\ SendAll(s.out)
                /\ remaining' = remaining - 1
                /\ IF remaining = 1
                   THEN task' = "reading" /\ cursor' = NoCursor
                   ELSE task' = "decoding" /\ cursor' = s.cur
    /\ UNCHANGED <<receivers, delivered, inbound, harnessVars, callerVars, seen>>

\* One iteration of `for _ in 0..total_packets`.  A panic unwinds the task.
DecodeRecord ==
    /\ task = "decoding"
    /\ LET s == decode_packet(cursor)
       IN  IF s.panicked \/ SendPanics(s.out)
           THEN /\ task' = "panicked"
                /\ cursor' = NoCursor
                /\ remaining' = 0
                /\ UNCHANGED <<chan, sent>>
           ELSE /\ SendAll(s.out)
                /\ remaining' = remaining - 1
                /\ IF remaining = 1
                   THEN task' = "reading" /\ cursor' = NoCursor
                   ELSE task' = "decoding" /\ cursor' = s.cur
    /\ UNCHANGED <<receivers, delivered, inbound, harnessVars, callerVars, seen>>

\* Variant: a text frame is surfaced as a Tick.
ReadText_surfaced ==
    /\ CanReadFrame
    /\ inbound' = Append(inbound, Item("Text"))
    /\ SendAll(<<[kind |-> "LtpQuote", instrument_token |-> 0,
                  last_price |-> [int |-> 0, frac |-> 0]]>>)
    /\ UNCHANGED <<task, cursor, remaining, receivers, delivered, harnessVars, callerVars, seen>>

\* Message::Text(_) => {}
ReadText ==
    /\ CanReadFrame
    /\ inbound' = Append(inbound, Item("Text"))
    /\ UNCHANGED <<task, cursor, remaining, chan, receivers, sent, delivered,
                   harnessVars, callerVars, seen>>

\* Message::Ping(_) | Message::Pong(_) => {}
ReadPingPong(kind) ==
    /\ CanReadFrame
    /\ inbound' = Append(inbound, Item(kind))
    /\ UNCHANGED <<task, cursor, remaining, chan, receivers, sent, delivered,
                   harnessVars, callerVars, seen>>

\* Message::Close(_) => tx.send(Ticker::ConnectionClosed); the loop goes on.
ReadClose ==
    /\ CanReadFrame
    /\ inbound' = Append(inbound, Item("Close"))
    /\ SendAll(<<ConnectionClosed>>)
    /\ task' = IF SendPanics(<<ConnectionClosed>>) THEN "panicked" ELSE task
    /\ UNCHANGED <<cursor, remaining, receivers, delivered, harnessVars, callerVars, seen>>

\* Err(AlreadyClosed | ConnectionClosed) => tx.send(ConnectionClosed); break
ReadClosedError(err) ==
    /\ CanRead
    /\ inbound' = Append(inbound, Item(err))
    /\ SendAll(<<ConnectionClosed>>)
    /\ task' = IF SendPanics(<<ConnectionClosed>>) THEN "panicked" ELSE "finished"
    /\ UNCHANGED <<cursor, remaining, receivers, delivered, harnessVars, callerVars, seen>>

\* Variant: any read error ends the loop.
ReadOtherError_break ==
    /\ CanReadFrame
    /\ inbound' = Append(inbound, Item("OtherError"))
    /\ task' = "finished"
    /\ UNCHANGED <<cursor, remaining, chan, receivers, sent, delivered,
                   harnessVars, callerVars, seen>>

\* Err(_) => eprintln!(..); the loop goes on.
ReadOtherError ==
    /\ CanReadFrame
    /\ inbound' = Append(inbound, Item("OtherError"))
    /\ UNCHANGED <<task, cursor, remaining, chan, receivers, sent, delivered,
                   harnessVars, callerVars, seen>>

\* read.next() yields None: `while let` ends and the task returns.
ReadEnd ==
    /\ CanRead
    /\ inbound' = Append(inbound, Item("End"))
    /\ task' = "finished"
    /\ UNCHANGED <<cursor, remaining, chan, receivers, sent, delivered,
                   harnessVars, callerVars, seen>>

\* rx.recv() / rx.try_recv() on a consumer's thread takes the oldest Tick.
Recv ==
    /\ receivers > 0
    /\ chan # <<>>
    /\ delivered' = Append(delivered, Head(chan))
    /\ chan' = Tail(chan)
    /\ UNCHANGED <<task, cursor, remaining, receivers, sent, inbound, harnessVars, callerVars, seen>>

\* rx.clone()
CloneReceiver ==
    /\ receivers > 0
    /\ receivers < MaxReceivers
    /\ receivers' = receivers + 1
    /\ UNCHANGED <<task, cursor, remaining, chan, sent, delivered, inbound,
                   harnessVars, callerVars, seen>>

\* drop(rx): dropping the last Receiver disconnects the channel and discards
\* what is still queued.
DropReceiver ==
    /\ receivers > 0
    /\ receivers' = receivers - 1
    /\ chan' = IF receivers = 1 THEN <<>> ELSE chan
    /\ UNCHANGED <<task, cursor, remaining, sent, delivered, inbound, harnessVars, callerVars, seen>>

\* Message::Frame is never yielded by a read, so the `unreachable!()` arm of
\* the match has no action.
Next ==
    \/ \E f \in FeedFrames : ReadBinary(f)
    \/ DecodeRecord
    \/ ReadText
    \/ \E kind \in {"Ping", "Pong"} : ReadPingPong(kind)
    \/ ReadClose
    \/ \E err \in {"AlreadyClosed", "ConnectionClosed"} : ReadClosedError(err)
    \/ ReadOtherError
    \/ ReadEnd
    \/ Recv
    \/ CloneReceiver
    \/ DropReceiver

Spec == Init /\ [][Next]_vars

-----------------------------------------------------------------------------
(* The connection from web_socket on, with the caller's side: the handshake,*)
(* the KiteTicker used to send and then dropped, the Receiver dropped.      *)

\* No connection yet: web_socket awaits connect_async.
InitConnect ==
    /\ websocket = "pending"
    /\ task = "none"
    /\ cursor = NoCursor
    /\ remaining = 0
    /\ chan = <<>>
    /\ receivers = 0
    /\ sent = <<>>
    /\ delivered = <<>>
    /\ inbound = <<>>
    /\ seen = NothingSeen
    /\ ticker = "none"
    /\ write_stream = [writable |-> FALSE, frames |-> <<>>]
    /\ frame = NoFrame
    /\ decoded = NotDecoded
    /\ instrument_token = 0
    /\ divisor = 0
    /\ request = NoRequest
    /\ result = "none"

\* Variant: the channel and the task are set up before the handshake result
\* is looked at.
web_socket_eager(handshake) ==
    /\ websocket = "pending"
    /\ websocket' = handshake
    /\ task' = "reading"
    /\ receivers' = 1
    /\ ticker' = "held"
    /\ write_stream' = [writable |-> TRUE, frames |-> <<>>]
    /\ UNCHANGED <<cursor, remaining, chan, sent, delivered, inbound, seen,
                   harnessVars, request, result>>

\* Kite::web_socket: `connect_async(endpoint).await?` returns the error of a
\* failed handshake; after a successful one the stream is split, the channel
\* created, the task spawned and the pair (KiteTicker, Receiver) returned.
web_socket(handshake) ==
    /\ websocket = "pending"
    /\ websocket' = handshake
    /\ IF handshake = "Ok"
       THEN /\ task' = "reading"
            /\ receivers' = 1
            /\ ticker' = "held"
            /\ write_stream' = [writable |-> TRUE, frames |-> <<>>]
       ELSE UNCHANGED <<task, receivers, ticker, write_stream>>
    /\ UNCHANGED <<cursor, remaining, chan, sent, delivered, inbound, seen,
                   harnessVars, request, result>>

\* The frames the peer sends and the requests the caller makes here.
ConnectFrames ==
    { [count |-> 2, recs |-> <<Rec(8, 1), Rec(44, 0)>>, cut |-> 0],
      [count |-> 2, recs |-> <<Rec(8, 2)>>, cut |-> 0] }
ConnectRequests == {Req("Subscribe", "none", <<408065>>)}

\* ticker.send(req).await on an open connection.
CallSend(req) ==
    /\ ticker = "held"
    /\ Len(write_stream.frames) < MaxSends
    /\ request' = req
    /\ send(req)
    /\ UNCHANGED <<connVars, harnessVars, websocket, ticker>>

\* The transport stops taking writes (the peer is gone, the socket broke).
WriteBreaks ==
    /\ websocket = "Ok"
    /\ write_stream.writable
    /\ write_stream' = [write_stream EXCEPT !.writable = FALSE]
    /\ UNCHANGED <<connVars, harnessVars, websocket, ticker, request, result>>

\* drop(ticker): the JoinHandle and the SplitSink are dropped.  KiteTicker has
\* no Drop impl; a dropped JoinHandle detaches its task.
DropTicker ==
    /\ ticker = "held"
    /\ ticker' = "dropped"
    /\ UNCHANGED <<connVars, harnessVars, websocket, write_stream, request, result>>

NextConnect ==
    \/ \E handshake \in {"Ok", "Err"} : web_socket(handshake)
    \/ \E f \in ConnectFrames : ReadBinary(f)
    \/ DecodeRecord
    \/ ReadText
    \/ \E kind \in {"Ping", "Pong"} : ReadPingPong(kind)
    \/ ReadClose
    \/ \E err \in {"AlreadyClosed", "ConnectionClosed"} : ReadClosedError(err)
    \/ ReadOtherError
    \/ ReadEnd
    \/ Recv
    \/ DropReceiver
    \/ \E req \in ConnectRequests : CallSend(req)
    \/ WriteBreaks
    \/ DropTicker

SpecConnect == InitConnect /\ [][NextConnect]_vars

-----------------------------------------------------------------------------
(* The connection with its consumers told apart: consumer c holds the c-th  *)
(* Receiver (the one web_socket returned, or a clone of it) and seen[c] is  *)
(* what its recv calls returned, in order.                                  *)

ConsumerFrames == { [count |-> 2, recs |-> <<Rec(8, 0), Rec(8, 1)>>, cut |-> 0] }

\* rx.recv() on consumer c's thread: the oldest Tick leaves the channel and
\* goes to c alone.
RecvBy(c) ==
    /\ c \in 1..receivers
    /\ chan # <<>>
    /\ delivered' = Append(delivered, Head(chan))
    /\ chan' = Tail(chan)
    /\ seen' = [seen EXCEPT ![c] = Append(@, Head(chan))]
    /\ UNCHANGED <<task, cursor, remaining, receivers, sent, inbound,
                   harnessVars, callerVars>>

NextConsumers ==
    \/ \E f \in ConsumerFrames : ReadBinary(f)
    \/ DecodeRecord
    \/ ReadClose
    \/ \E err \in {"AlreadyClosed", "ConnectionClosed"} : ReadClosedError(err)
    \/ ReadEnd
    \/ CloneReceiver
    \/ \E c \in 1..MaxReceivers : RecvBy(c)

SpecConsumers == Init /\ [][NextConsumers]_vars

-----------------------------------------------------------------------------
(* The connection with one consumer that keeps calling recv until recv      *)
(* reports that the channel is disconnected, as in examples/ws.rs.          *)

\* The task owns the only Sender: it is dropped when the task returns or
\* unwinds.
SenderReleased == task \in {"finished", "panicked"}

\* Variant: recv gives up as soon as the Sender is gone.
RecvDisconnected_early ==
    /\ receivers > 0
    /\ SenderReleased
    /\ receivers' = receivers - 1
    /\ chan' = IF receivers = 1 THEN <<>> ELSE chan
    /\ UNCHANGED <<task, cursor, remaining, sent, delivered, inbound,
                   harnessVars, callerVars, seen>>

\* rx.recv() returns Err: the channel is empty and the Sender is gone.  The
\* `while let Ok(packet) = rx.recv()` loop ends and the Receiver is dropped.
RecvDisconnected ==
    /\ receivers > 0
    /\ chan = <<>>
    /\ SenderReleased
    /\ receivers' = receivers - 1
    /\ UNCHANGED <<task, cursor, remaining, chan, sent, delivered, inbound,
                   harnessVars, callerVars, seen>>

NextDrain ==
    \/ \E f \in FeedFrames : ReadBinary(f)
    \/ DecodeRecord
    \/ ReadText
    \/ ReadClose
    \/ \E err \in {"AlreadyClosed", "ConnectionClosed"} : ReadClosedError(err)
    \/ ReadOtherError
    \/ ReadEnd
    \/ Recv
    \/ RecvDisconnected

SpecDrain == Init /\ [][NextDrain]_vars

-----------------------------------------------------------------------------
(* KiteTicker::wait_handle: the caller gives up the KiteTicker and awaits    *)
(* the JoinHandle of the background task.  The inbound half is finite here:  *)
(* after at most MaxItems - 1 frames it yields its end or a closed-          *)
(* connection error.                                                         *)

\* The inbound half has a frame left to yield before it ends.
FrameLeft == Len(inbound) < MaxItems - 1

\* pub async fn wait_handle(self): the call, up to the await.
wait_handle_call ==
    /\ ticker = "held"
    /\ ticker' = "waiting"
    /\ UNCHANGED <<connVars, harnessVars, websocket, write_stream, request, result>>

\* Variant: the JoinError of a panicked task is unwrapped.
wait_handle_unwrap ==
    /\ ticker = "waiting"
    /\ SenderReleased
    /\ ticker' = "returned"
    /\ result' = IF task = "panicked" THEN "JoinError" ELSE "Returned"
    /\ UNCHANGED <<connVars, harnessVars, websocket, write_stream, request>>

\* let _ = self.handle.await; the JoinHandle resolves once the task has
\* returned or unwound, and its Result is discarded.
wait_handle ==
    /\ ticker = "waiting"
    /\ SenderReleased
    /\ ticker' = "returned"
    /\ result' = "Returned"
    /\ UNCHANGED <<connVars, harnessVars, websocket, write_stream, request>>

\* Frames of LTP records: one whole, one announcing a record it lacks.
WaitFrames ==
    { [count |-> 2, recs |-> <<Rec(8, 0), Rec(8, 1)>>, cut |-> 0],
      [count |-> 2, recs |-> <<Rec(8, 2)>>, cut |-> 0] }

\* One step of the background task.
TaskRuns ==
    \/ FrameLeft /\ \E f \in WaitFrames : ReadBinary(f)
    \/ DecodeRecord
    \/ FrameLeft /\ ReadText
    \/ FrameLeft /\ \E kind \in {"Ping", "Pong"} : ReadPingPong(kind)
    \/ FrameLeft /\ ReadClose
    \/ \E err \in {"AlreadyClosed", "ConnectionClosed"} : ReadClosedError(err)
    \/ FrameLeft /\ ReadOtherError
    \/ ReadEnd

NextWait ==
    \/ TaskRuns
    \/ Recv
    \/ wait_handle_call
    \/ wait_handle

\* The runtime keeps polling a spawned task that can make progress, and the
\* awaiting caller once the JoinHandle has resolved.
SpecWait ==
    /\ Init
    /\ [][NextWait]_vars
    /\ WF_vars(TaskRuns)
    /\ WF_vars(wait_handle)

-----------------------------------------------------------------------------
(* What the wire format promises for a record, stated on the field values   *)
(* the frame was laid out from.                                            *)

\* The divisor rule of the data model: segment 3 and segment 6 have their own.
DivisorRule(tok) ==
    IF tok % 256 = 3 THEN 10000000 ELSE IF tok % 256 = 6 THEN 10000 ELSE 100

\* p is the decimal raw / d: p times d gives raw back.
PriceIs(p, raw, d) ==
    /\ p.frac >= 0 /\ p.frac < PRICE_SCALE
    /\ p.frac % (PRICE_SCALE \div d) = 0
    /\ p.int * d + p.frac \div (PRICE_SCALE \div d) = raw

SeedDivisor(s) == DivisorRule(WireToken(s))

Whole(f) == f.cut = 0 /\ f.count = Len(f.recs)

\* The number of records with a recognized length among the first i.
KnownUpTo(recs, i) == Cardinality({j \in 1..i : recs[j].len \in KnownLens})

KindOf(L) ==
    IF L = 8 THEN "LtpQuote"
    ELSE IF L \in {28, 32} THEN "IndicesQuote"
    ELSE IF L = 44 THEN "PartialQuote"
    ELSE IF L = 184 THEN "FullQuote"
    ELSE "none"

ExpectLtp(t, s) ==
    /\ t.kind = "LtpQuote"
    /\ t.instrument_token = WireToken(s)
    /\ PriceIs(t.last_price, WireWord(s, 1), SeedDivisor(s))

ExpectIndex(t, s) ==
    /\ t.kind = "IndicesQuote"
    /\ t.instrument_token = WireToken(s)
    /\ PriceIs(t.last_price, WireWord(s, 1), SeedDivisor(s))
    /\ PriceIs(t.ohlc.high, WireWord(s, 2), SeedDivisor(s))
    /\ PriceIs(t.ohlc.low, WireWord(s, 3), SeedDivisor(s))
    /\ PriceIs(t.ohlc.open, WireWord(s, 4), SeedDivisor(s))
    /\ PriceIs(t.ohlc.close, WireWord(s, 5), SeedDivisor(s))

ExpectQuote(q, s) ==
    /\ q.instrument_token = WireToken(s)
    /\ PriceIs(q.last_price, WireWord(s, 1), SeedDivisor(s))
    /\ q.last_traded_quantity = WireWord(s, 2)
    /\ PriceIs(q.average_traded_price, WireWord(s, 3), SeedDivisor(s))
    /\ q.volume_traded = WireWord(s, 4)
    /\ q.total_buy_quantity = WireWord(s, 5)
    /\ q.total_sell_quantity = WireWord(s, 6)
    /\ PriceIs(q.ohlc.open, WireWord(s, 7), SeedDivisor(s))
    /\ PriceIs(q.ohlc.high, WireWord(s, 8), SeedDivisor(s))
    /\ PriceIs(q.ohlc.low, WireWord(s, 9), SeedDivisor(s))
    /\ PriceIs(q.ohlc.close, WireWord(s, 10), SeedDivisor(s))

ExpectDepthEntry(e, s, i) ==
    /\ e.quantity = WireDepthQty(s, i)
    /\ PriceIs(e.price, WireDepthPrice(s, i), SeedDivisor(s))
    /\ e.orders = WireDepthOrders(s, i)

ExpectDepth(depth, s) ==
    /\ Len(depth.buy) = 5
    /\ Len(depth.sell) = 5
    /\ \A i \in 0..4 : ExpectDepthEntry(depth.buy[i + 1], s, i)
    /\ \A i \in 5..9 : ExpectDepthEntry(depth.sell[i - 4], s, i)

ExpectFull(t, s) ==
    /\ t.kind = "FullQuote"
    /\ ExpectQuote(t.quote, s)
    /\ t.last_trade_time = WireWord(s, 11)
    /\ t.oi = WireWord(s, 12)
    /\ t.oi_day_high = WireWord(s, 13)
    /\ t.oi_day_low = WireWord(s, 14)
    /\ t.exchange_timestamp = WireWord(s, 15)
    /\ ExpectDepth(t.depth, s)

ExpectTick(t, r) ==
    IF r.len = 8 THEN ExpectLtp(t, r.seed)
    ELSE IF r.len \in {28, 32} THEN ExpectIndex(t, r.seed)
    ELSE IF r.len = 44 THEN t.kind = "PartialQuote" /\ ExpectQuote(t.quote, r.seed)
    ELSE IF r.len = 184 THEN ExpectFull(t, r.seed)
    ELSE FALSE

AllKnown(f) == \A i \in 1..Len(f.recs) : f.recs[i].len \in KnownLens

-----------------------------------------------------------------------------
(* Claims *)

\* C1: a frame of N complete records, all of a recognized length, yields
\* exactly N Ticks; the i-th Tick has the variant its record's length fixes and
\* every field of it is the value of the i-th record's own wire field.
C1_OneTickPerRecordInWireOrder ==
    (decoded.done /\ Whole(frame) /\ AllKnown(frame)) =>
        /\ ~decoded.panicked
        /\ Len(decoded.ticks) = Len(frame.recs)
        /\ \A i \in 1..Len(frame.recs) :
              /\ decoded.ticks[i].kind = KindOf(frame.recs[i].len)
              /\ ExpectTick(decoded.ticks[i], frame.recs[i])

C1_Witness ==
    /\ decoded.done
    /\ frame = [count |-> 2, recs |-> <<Rec(8, 1), Rec(184, 0)>>, cut |-> 0]
    /\ Len(decoded.ticks) = 2
    /\ decoded.ticks[1].kind = "LtpQuote"
    /\ decoded.ticks[2].kind = "FullQuote"
    /\ decoded.ticks[2].quote.last_price = [int |-> 1412, frac |-> 9500000]

\* C2: a complete record of unrecognized length L yields no Tick and moves
\* the cursor by exactly L bytes: every record after it is decoded from its
\* own bytes and the cursor ends at the end of the frame.
C2_UnknownRecordSkipped ==
    (decoded.done /\ Whole(frame) /\ ~AllKnown(frame)) =>
        /\ ~decoded.panicked
        /\ Len(decoded.ticks) = KnownUpTo(frame.recs, Len(frame.recs))
        /\ \A i \in 1..Len(frame.recs) :
              frame.recs[i].len \in KnownLens =>
                  ExpectTick(decoded.ticks[KnownUpTo(frame.recs, i)], frame.recs[i])
        /\ decoded.pos = Len(WireFrame(frame))

C2_Witness ==
    /\ decoded.done
    /\ frame = [count |-> 2, recs |-> <<Rec(5, 1), Rec(8, 2)>>, cut |-> 0]
    /\ Len(decoded.ticks) = 1
    /\ decoded.ticks[1].kind = "LtpQuote"
    /\ decoded.ticks[1].instrument_token = WireToken(2)

\* The frame's last record announces 184 bytes and at least one of them is
\* missing; its length field and every record before it are complete.
TruncatedFull(f) ==
    /\ f.recs # <<>>
    /\ f.recs[Len(f.recs)].len = 184
    /\ f.cut \in 1..184
    /\ f.count = Len(f.recs)

\* C3: a frame whose 184-byte record is truncated, wherever the cut falls,
\* ends in a decode failure: decoding does not panic and no Tick is made of
\* the bytes that are present.
C3_TruncatedFullIsDecodeFailure ==
    (decoded.done /\ TruncatedFull(frame)) =>
        /\ ~decoded.panicked
        /\ Len(decoded.ticks) = KnownUpTo(frame.recs, Len(frame.recs) - 1)

\* A frame with a truncated record, or announcing more records than it holds.
BadFrame(f) == f.recs # <<>> /\ (f.cut > 0 \/ f.count > Len(f.recs))

IsBinary(item) == item.kind = "Binary"

FrameTicks(f) == decode_n_send_bytes(WireFrame(f)).ticks

\* The last n elements of a sequence.
LastN(q, n) == SubSeq(q, Len(q) - n + 1, Len(q))

\* C4: a frame with a truncated record (or too large a record count) is
\* fatal to itself only: the task does not die of it, and a well-formed frame
\* received after it is decoded into the Ticks it holds.
C4_TruncatedFrameFatalToItselfOnly ==
    \A i \in 1..Len(inbound) :
        (IsBinary(inbound[i]) /\ BadFrame(inbound[i].frame)) =>
            /\ task # "panicked"
            /\ \A j \in (i + 1)..Len(inbound) :
                  (/\ j = Len(inbound)
                   /\ IsBinary(inbound[j])
                   /\ Whole(inbound[j].frame)
                   /\ task = "reading"
                   /\ receivers > 0) =>
                      LET T == FrameTicks(inbound[j].frame)
                      IN  Len(sent) >= Len(T) /\ LastN(sent, Len(T)) = T

Sentinels(q) == {i \in 1..Len(q) : q[i] = ConnectionClosed}

\* C5: on remote closure (a Close frame, possibly followed by a
\* closed-connection error or the end of the stream) the channel gets exactly
\* one ConnectionClosed, and nothing is pushed after it.
C5_ExactlyOneSentinel ==
    CloseSeen =>
        /\ Cardinality(Sentinels(sent)) <= 1
        /\ receivers > 0 => Cardinality(Sentinels(sent)) = 1
        /\ \A i \in Sentinels(sent) : i = Len(sent)

\* C6: whenever the background task has stopped, it stopped by returning
\* (never by a panic) and had pushed a ConnectionClosed before.
C6_EveryStopSignalled ==
    (task \in {"finished", "panicked"} /\ receivers > 0) =>
        /\ task = "finished"
        /\ Sentinels(sent) # {}

IsData(t) == t.kind # "ConnectionClosed"
Data(q) == SelectSeq(q, IsData)

IsPrefix(a, b) == Len(a) <= Len(b) /\ SubSeq(b, 1, Len(a)) = a

\* The Ticks of every binary frame received, frame after frame.
RECURSIVE InboundTicks(_)
InboundTicks(items) ==
    IF items = <<>> THEN <<>>
    ELSE (IF IsBinary(Head(items)) THEN FrameTicks(Head(items).frame) ELSE <<>>)
             \o InboundTicks(Tail(items))

TickToken(t) ==
    IF t.kind \in {"PartialQuote", "FullQuote"}
    THEN t.quote.instrument_token
    ELSE t.instrument_token

\* The wire tokens of the records of recognized length, in wire order.
RECURSIVE KnownTokens(_)
KnownTokens(recs) ==
    IF recs = <<>> THEN <<>>
    ELSE (IF Head(recs).len \in KnownLens
          THEN <<WireToken(Head(recs).seed)>> ELSE <<>>)
             \o KnownTokens(Tail(recs))

RECURSIVE InboundTokens(_)
InboundTokens(items) ==
    IF items = <<>> THEN <<>>
    ELSE (IF IsBinary(Head(items)) THEN KnownTokens(Head(items).frame.recs) ELSE <<>>)
             \o InboundTokens(Tail(items))

AllFramesWhole ==
    \A i \in 1..Len(inbound) : IsBinary(inbound[i]) => Whole(inbound[i].frame)

\* C7: the data Ticks accepted by the channel are, in order, the Ticks of the
\* frames in arrival order, each frame's in wire order; consumers take them
\* out in that same order, one entry per record.
C7_WireOrderPreserved ==
    /\ IsPrefix(Data(sent), InboundTicks(inbound))
    /\ (receivers > 0 /\ task # "decoding") => Data(sent) = InboundTicks(inbound)
    /\ (receivers > 0 /\ task # "decoding" /\ AllFramesWhole) =>
           [i \in 1..Len(Data(sent)) |-> TickToken(Data(sent)[i])]
               = InboundTokens(inbound)
    /\ IsPrefix(delivered, sent)
    /\ receivers > 0 => delivered \o chan = sent

C7_Witness ==
    /\ Len(inbound) = 2
    /\ inbound[1].frame = [count |-> 2, recs |-> <<Rec(8, 1), Rec(184, 0)>>, cut |-> 0]
    /\ inbound[2].frame = [count |-> 2, recs |-> <<Rec(5, 1), Rec(8, 2)>>, cut |-> 0]
    /\ task = "reading"
    /\ Len(sent) = 3
    /\ Len(delivered) = 3
    /\ delivered[1].kind = "LtpQuote" /\ delivered[1].instrument_token = WireToken(1)
    /\ delivered[2].kind = "FullQuote"
    /\ delivered[3].kind = "LtpQuote" /\ delivered[3].instrument_token = WireToken(2)

\* C8: every complete 8-byte record yields exactly one LtpQuote whose token
\* is the wire token and whose last_price times the token's divisor is the raw
\* wire price.
C8_LtpQuote ==
    (decoded.done /\ Whole(frame)) =>
        \A i \in 1..Len(frame.recs) :
            frame.recs[i].len = 8 =>
                LET k == KnownUpTo(frame.recs, i)
                    t == decoded.ticks[k]
                IN  /\ k <= Len(decoded.ticks)
                    /\ t.kind = "LtpQuote"
                    /\ t.instrument_token = WireToken(frame.recs[i].seed)
                    /\ PriceIs(t.last_price, WireWord(frame.recs[i].seed, 1),
                               DivisorRule(t.instrument_token))
                    /\ Cardinality({j \in 1..Len(decoded.ticks) :
                                      decoded.ticks[j].kind = "LtpQuote"})
                         = Cardinality({j \in 1..Len(frame.recs) :
                                          frame.recs[j].len = 8})

C8_Witness ==
    /\ decoded.done
    /\ frame = [count |-> 1, recs |-> <<Rec(8, 1)>>, cut |-> 0]
    /\ decoded.ticks = <<[kind |-> "LtpQuote", instrument_token |-> 16909059,
                          last_price |-> [int |-> 30, frac |-> 2187525]]>>

\* C9: get_divisor is 10,000,000 exactly for low byte 3, 10,000 exactly for
\* low byte 6, and 100 for every other low byte, whatever the higher bits.
C9_DivisorByLowByte ==
    divisor # 0 =>
        /\ (divisor = 10000000) <=> (instrument_token % 256 = 3)
        /\ (divisor = 10000) <=> (instrument_token % 256 = 6)
        /\ (instrument_token % 256 \notin {3, 6}) => divisor = 100

C9_Witness ==
    /\ divisor = 10000000
    /\ instrument_token = 8388607 * 256 + 3

\* C10: every complete 184-byte record yields a FullQuote whose depth book
\* has 5 buy entries, wire entries 0..4 in order, and 5 sell entries, wire
\* entries 5..9 in order, each with the wire quantity and order count and the
\* wire price over the record's divisor.
C10_DepthBook ==
    (decoded.done /\ Whole(frame)) =>
        \A i \in 1..Len(frame.recs) :
            frame.recs[i].len = 184 =>
                LET k == KnownUpTo(frame.recs, i)
                IN  /\ k <= Len(decoded.ticks)
                    /\ decoded.ticks[k].kind = "FullQuote"
                    /\ ExpectDepth(decoded.ticks[k].depth, frame.recs[i].seed)

C10_Witness ==
    /\ decoded.done
    /\ frame = [count |-> 2, recs |-> <<Rec(184, 1), Rec(184, 2)>>, cut |-> 0]
    /\ Len(decoded.ticks) = 2
    /\ Len(decoded.ticks[2].depth.buy) = 5
    /\ Len(decoded.ticks[2].depth.sell) = 5
    /\ decoded.ticks[2].depth.sell[5].orders = WireDepthOrders(2, 9)

-----------------------------------------------------------------------------
(* C16: a binary frame of 0 or 1 byte is a no-op.  The step in which the    *)
(* task reads such a frame pushes nothing on the channel, does not panic    *)
(* and leaves the task in its read loop.                                    *)

IsTiny(item) == item.kind = "Binary" /\ Len(WireFrame(item.frame)) < 2

\* The item this step read, when it read one.
ReadsItem == Len(inbound') = Len(inbound) + 1
ItemRead == inbound'[Len(inbound')]

C16_ShortFrameIsNoOp ==
    [][(ReadsItem /\ IsTiny(ItemRead))
         => (task' = "reading" /\ chan' = chan /\ sent' = sent)]_vars

C16_Witness ==
    /\ Len(inbound) = 2
    /\ IsTiny(inbound[1]) /\ IsTiny(inbound[2])
    /\ Len(WireFrame(inbound[1].frame)) = 0
    /\ Len(WireFrame(inbound[2].frame)) = 1
    /\ task = "reading"

-----------------------------------------------------------------------------
(* C20: reading a Text, Ping or Pong frame leaves the channel as it was and *)
(* the task in its read loop; a data Tick is pushed only by a decoding step *)
(* of a Binary frame.                                                       *)

IsControl(item) == item.kind \in {"Text", "Ping", "Pong"}

C20_OnlyBinaryProducesTicks ==
    [][/\ (ReadsItem /\ IsControl(ItemRead))
            => (task' = "reading" /\ chan' = chan /\ sent' = sent)
       /\ Len(Data(sent')) > Len(Data(sent))
            => (/\ task = "decoding"
                /\ inbound' = inbound
                /\ inbound[Len(inbound)].kind = "Binary")]_vars

C20_Witness ==
    /\ Len(inbound) = 2
    /\ inbound[1].kind = "Binary"
    /\ IsControl(inbound[2])
    /\ task = "reading"
    /\ Len(Data(sent)) = 2
    /\ chan = sent

-----------------------------------------------------------------------------
(* C15: a push refused because every Receiver is gone is not fatal.  In a   *)
(* step of the task that pushes while no Receiver lives, nothing is queued  *)
(* and the task goes where the same step takes it when the push succeeds:   *)
(* to the next record of the frame, back to the read loop after the last    *)
(* record or a Close frame, out of the loop after a closed-connection error.*)

\* A step of the background task.
TaskStep ==
    <<task, cursor, remaining, inbound>>' # <<task, cursor, remaining, inbound>>

PushesRecord == task = "decoding" /\ decode_packet(cursor).out # <<>>

C15_FailedPushNotFatal ==
    [][(TaskStep /\ receivers = 0)
         => /\ PushesRecord
                 => /\ chan' = chan /\ sent' = sent
                    /\ remaining' = remaining - 1
                    /\ task' = IF remaining = 1 THEN "reading" ELSE "decoding"
                    /\ remaining > 1 => cursor' = decode_packet(cursor).cur
            /\ (ReadsItem /\ ItemRead.kind = "Close")
                 => (chan' = chan /\ sent' = sent /\ task' = "reading")
            /\ (ReadsItem /\ ItemRead.kind \in {"AlreadyClosed", "ConnectionClosed"})
                 => (chan' = chan /\ sent' = sent /\ task' = "finished")]_vars

\* Both Ticks of a frame and the sentinel were refused, and the task reads on.
C15_Witness ==
    /\ receivers = 0
    /\ Len(inbound) = 2
    /\ inbound[1].kind = "Binary"
    /\ Whole(inbound[1].frame) /\ AllKnown(inbound[1].frame)
    /\ Len(inbound[1].frame.recs) = 2
    /\ inbound[2].kind = "Close"
    /\ sent = <<>>
    /\ task = "reading"

-----------------------------------------------------------------------------
(* Reading JSON text back: a parser for the texts send writes (objects,     *)
(* arrays, strings without escapes, unsigned numbers; no white space).      *)

Unparsed == [ok |-> FALSE, val |-> [t |-> "Null"], next |-> 0]
Parsed(v, next) == [ok |-> TRUE, val |-> v, next |-> next]

IsDigit(c) == \E d \in 1..10 : Digit[d] = c
DigitValue(c) == (CHOOSE d \in 1..10 : Digit[d] = c) - 1

RECURSIVE ParseNumber(_, _, _)
ParseNumber(cs, i, acc) ==
    IF i <= Len(cs) /\ IsDigit(cs[i])
    THEN ParseNumber(cs, i + 1, acc * 10 + DigitValue(cs[i]))
    ELSE Parsed(Number(acc), i)

\* From the character after the opening quote to the closing quote.
RECURSIVE ParseString(_, _, _)
ParseString(cs, i, acc) ==
    IF i > Len(cs) THEN Unparsed
    ELSE IF cs[i] = "\"" THEN Parsed(String(acc), i + 1)
    ELSE ParseString(cs, i + 1, Append(acc, cs[i]))

RECURSIVE ParseValue(_, _), ParseItems(_, _, _), ParseEntries(_, _, _)
ParseValue(cs, i) ==
    IF i > Len(cs) THEN Unparsed
    ELSE IF IsDigit(cs[i]) THEN ParseNumber(cs, i, 0)
    ELSE IF cs[i] = "\"" THEN ParseString(cs, i + 1, <<>>)
    ELSE IF cs[i] = "[" THEN
        IF i < Len(cs) /\ cs[i + 1] = "]" THEN Parsed(Array(<<>>), i + 2)
        ELSE ParseItems(cs, i + 1, <<>>)
    ELSE IF cs[i] = "{" THEN
        IF i < Len(cs) /\ cs[i + 1] = "}" THEN Parsed(Object(<<>>), i + 2)
        ELSE ParseEntries(cs, i + 1, <<>>)
    ELSE Unparsed

ParseItems(cs, i, acc) ==
    LET v == ParseValue(cs, i)
    IN  IF ~v.ok \/ v.next > Len(cs) THEN Unparsed
        ELSE IF cs[v.next] = "," THEN ParseItems(cs, v.next + 1, Append(acc, v.val))
        ELSE IF cs[v.next] = "]" THEN Parsed(Array(Append(acc, v.val)), v.next + 1)
        ELSE Unparsed

ParseEntries(cs, i, acc) ==
    IF i > Len(cs) \/ cs[i] # "\"" THEN Unparsed
    ELSE LET k == ParseString(cs, i + 1, <<>>)
         IN  IF ~k.ok \/ k.next > Len(cs) \/ cs[k.next] # ":" THEN Unparsed
             ELSE LET v == ParseValue(cs, k.next + 1)
                      e == <<k.val.s, v.val>>
                  IN  IF ~v.ok \/ v.next > Len(cs) THEN Unparsed
                      ELSE IF cs[v.next] = ","
                      THEN ParseEntries(cs, v.next + 1, Append(acc, e))
                      ELSE IF cs[v.next] = "}"
                      THEN Parsed(Object(Append(acc, e)), v.next + 1)
                      ELSE Unparsed

\* The whole text is one JSON value.
from_str(cs) ==
    LET r == ParseValue(cs, 1)
    IN  IF r.ok /\ r.next = Len(cs) + 1 THEN r ELSE Unparsed

\* v is an object with exactly the members "a" and "v".
IsEnvelope(v) ==
    /\ v.t = "Object"
    /\ Len(v.entries) = 2
    /\ {v.entries[1][1], v.entries[2][1]} = {StrA, StrV}
Member(v, key) ==
    IF v.entries[1][1] = key THEN v.entries[1][2] ELSE v.entries[2][2]

\* v is an array of numbers: the token list it holds.
IsTokenArray(v) ==
    v.t = "Array" /\ \A i \in 1..Len(v.items) : v.items[i].t = "Number"
TokensIn(v) == [i \in 1..Len(v.items) |-> v.items[i].n]

ActionText(kind) ==
    CASE kind = "Subscribe" -> StrSubscribe
      [] kind = "Unsubscribe" -> StrUnsubscribe
      [] kind = "Mode" -> StrMode

\* The one frame a successful send wrote.
Written == write_stream.frames[1]

-----------------------------------------------------------------------------
(* C11: a successful send of Subscribe(tokens) or Unsubscribe(tokens)       *)
(* writes exactly one text frame; its text parses to an object whose only   *)
(* members are "a", the string "subscribe" or "unsubscribe", and "v", the   *)
(* list of the same tokens in the same order and multiplicity, so parsing   *)
(* gives back the action and the token list of the request.                 *)

C11_SubscribeRoundTrip ==
    (request.kind \in {"Subscribe", "Unsubscribe"} /\ result = "Ok")
      => /\ Len(write_stream.frames) = 1
         /\ Written.kind = "Text"
         /\ LET p == from_str(Written.text)
            IN  /\ p.ok
                /\ IsEnvelope(p.val)
                /\ Member(p.val, StrA).t = "String"
                /\ Member(p.val, StrA).s = ActionText(request.kind)
                /\ StrSubscribe # StrUnsubscribe
                /\ IsTokenArray(Member(p.val, StrV))
                /\ TokensIn(Member(p.val, StrV)) = request.instrument_tokens

\* Two different tokens, one with a zero digit, sent and written.
C11_Witness ==
    /\ request.kind = "Unsubscribe"
    /\ request.instrument_tokens = <<884737, 408065>>
    /\ result = "Ok"
    /\ Len(write_stream.frames) = 1

-----------------------------------------------------------------------------
(* C12: a successful send of Mode{mode, tokens} writes exactly one text     *)
(* frame; its text parses to an object whose only members are "a", the      *)
(* string "mode", and "v", a list of two elements: the mode as "ltp",       *)
(* "quote" or "full", then the list of the tokens in the caller's order.    *)

ModeText(mode) ==
    CASE mode = "Ltp" -> <<"l", "t", "p">>
      [] mode = "Quote" -> <<"q", "u", "o", "t", "e">>
      [] mode = "Full" -> <<"f", "u", "l", "l">>

C12_ModeEnvelope ==
    (request.kind = "Mode" /\ result = "Ok")
      => /\ Len(write_stream.frames) = 1
         /\ Written.kind = "Text"
         /\ LET p == from_str(Written.text)
            IN  /\ p.ok
                /\ IsEnvelope(p.val)
                /\ Member(p.val, StrA).t = "String"
                /\ Member(p.val, StrA).s = StrMode
                /\ LET v == Member(p.val, StrV)
                   IN  /\ v.t = "Array"
                       /\ Len(v.items) = 2
                       /\ v.items[1].t = "String"
                       /\ v.items[1].s = ModeText(request.mode)
                       /\ IsTokenArray(v.items[2])
                       /\ TokensIn(v.items[2]) = request.instrument_tokens

C12_Witness ==
    /\ request.kind = "Mode"
    /\ request.mode = "Quote"
    /\ request.instrument_tokens = <<408065, 0>>
    /\ result = "Ok"
    /\ Len(write_stream.frames) = 1

-----------------------------------------------------------------------------
(* C13: send and send_raw return an error exactly when the write on the     *)
(* outbound half fails, and Ok only when the frame was written: after Ok    *)
(* the outbound half holds the one frame of the request, after an error it  *)
(* holds none.  Encoding a Req never fails, so send fails only through the  *)
(* write.                                                                   *)

C13_SendReturnsWriteResult ==
    result # "none"
      => /\ result \in {"Ok", "Err"}
         /\ result = "Err" <=> ~write_stream.writable
         /\ result = "Err" => write_stream.frames = <<>>
         /\ result = "Ok"
              => /\ Len(write_stream.frames) = 1
                 /\ IF request.kind = "Raw"
                    THEN Written = request.msg
                    ELSE Written.kind = "Text" /\ from_str(Written.text).ok

C13_Witness ==
    /\ request.kind = "Subscribe"
    /\ request.instrument_tokens = <<408065>>
    /\ ~write_stream.writable
    /\ result = "Err"

-----------------------------------------------------------------------------
(* C14: after a failed handshake web_socket has returned the error and      *)
(* nothing of a connection exists: no background task, no channel and no    *)
(* Receiver, no KiteTicker, nothing read or written; and nothing happens    *)
(* from there on, in particular no second attempt to connect.               *)

NothingCreated ==
    /\ task = "none"
    /\ receivers = 0
    /\ ticker = "none"
    /\ chan = <<>> /\ sent = <<>> /\ inbound = <<>>
    /\ write_stream.frames = <<>>

C14_FailedHandshakeOpensNothing ==
    /\ [](websocket = "Err" => NothingCreated)
    /\ [][websocket # "Err"]_vars

C14_Witness == websocket = "Err" /\ NothingCreated

-----------------------------------------------------------------------------
(* C17: the lifecycle goes Connecting -> Open -> Closed and never back.     *)
(* Closed (the background task has ended) is terminal: the task is not      *)
(* spawned again, reads nothing more and pushes no further Tick.            *)

ConnState ==
    IF websocket = "pending" THEN "Connecting"
    ELSE IF websocket = "Err" THEN "Failed"
    ELSE IF task \in {"reading", "decoding"} THEN "Open"
    ELSE "Closed"

C17_LifecycleForwardOnly ==
    [][/\ ConnState = "Connecting" => ConnState' \in {"Connecting", "Open", "Failed"}
       /\ ConnState = "Open" => ConnState' \in {"Open", "Closed"}
       /\ ConnState = "Closed"
            => /\ ConnState' = "Closed"
               /\ task' = task
               /\ inbound' = inbound
               /\ sent' = sent
               /\ Len(chan') <= Len(chan)]_vars

\* Closed with a Tick still queued and another one already received.
C17_Witness ==
    /\ ConnState = "Closed"
    /\ task = "finished"
    /\ chan # <<>>
    /\ delivered # <<>>

-----------------------------------------------------------------------------
(* C18: once the caller has dropped both the KiteTicker and every Receiver  *)
(* of an open connection, the connection closes: the task stops reading the *)
(* inbound half, so the only item it may still take from it is one that     *)
(* ends it.                                                                 *)

BothDropped == ticker = "dropped" /\ receivers = 0

C18_DroppedHandlesCloseConnection ==
    [][(BothDropped /\ ConnState = "Open" /\ ReadsItem)
         => ConnState' = "Closed"]_vars

-----------------------------------------------------------------------------
(* C19: once send or send_raw has failed on a write error, the connection   *)
(* closes: the task does not go on serving the inbound half, so the only    *)
(* item it may still take from it is one that ends it.                      *)

C19_WriteErrorClosesConnection ==
    [][(result = "Err" /\ ConnState = "Open" /\ ReadsItem)
         => ConnState' = "Closed"]_vars

-----------------------------------------------------------------------------
(* C21: a read error that is not one of the two closed-connection errors    *)
(* does not end the task: the step that reads it pushes nothing and leaves  *)
(* the task in its read loop, where it reads and decodes what comes next.   *)

C21_OtherReadErrorNotFatal ==
    [][(ReadsItem /\ ItemRead.kind = "OtherError")
         => (task' = "reading" /\ chan' = chan /\ sent' = sent)]_vars

\* A frame read after the error was decoded to its Ticks.
C21_Witness ==
    /\ Len(inbound) = 2
    /\ inbound[1].kind = "OtherError"
    /\ inbound[2].kind = "Binary"
    /\ Whole(inbound[2].frame) /\ AllKnown(inbound[2].frame)
    /\ Len(inbound[2].frame.recs) = 2
    /\ Len(Data(sent)) = 2
    /\ task = "reading"

-----------------------------------------------------------------------------
(* C22: the step that reads a Close frame, or a read error classified as a  *)
(* closed connection, pushes the ConnectionClosed sentinel and ends the     *)
(* loop at once: the task is finished after that very step, so it reads no  *)
(* further item.                                                            *)

IsClosing(item) == item.kind \in {"Close", "AlreadyClosed", "ConnectionClosed"}

C22_CloseEndsLoopAtOnce ==
    [][(ReadsItem /\ IsClosing(ItemRead))
         => /\ task' = "finished"
            /\ receivers > 0 => sent' = Append(sent, ConnectionClosed)]_vars

-----------------------------------------------------------------------------
(* C23: every FullQuote the decoder hands to the channel, whatever the      *)
(* bytes of the frame (frames that end inside the depth section included),  *)
(* has exactly five buy entries and exactly five sell entries.              *)

C23_FullQuoteHasFiveAndFive ==
    decoded.done
      => \A i \in 1..Len(decoded.ticks) :
            decoded.ticks[i].kind = "FullQuote"
              => /\ Len(decoded.ticks[i].depth.buy) = 5
                 /\ Len(decoded.ticks[i].depth.sell) = 5

-----------------------------------------------------------------------------
(* C24: a truncated record is never silently accepted.  When the last       *)
(* record of a frame declares a length L, recognized or not, and fewer than *)
(* L bytes follow its length field, decoding the frame ends in a failure    *)
(* (the only one the decoder has is the panic of an unwrap) and no Tick is  *)
(* pushed for that record.                                                  *)

\* The last record has its length field but not all of its L bytes.
TruncatedLast(f) ==
    /\ f.recs # <<>>
    /\ f.count = Len(f.recs)
    /\ f.cut > 0
    /\ f.cut <= f.recs[Len(f.recs)].len

KnownBeforeLast(f) ==
    Cardinality({i \in 1..(Len(f.recs) - 1) : f.recs[i].len \in KnownLens})

C24_TruncatedRecordRejected ==
    (decoded.done /\ TruncatedLast(frame))
      => /\ decoded.panicked
         /\ Len(decoded.ticks) = KnownBeforeLast(frame)

-----------------------------------------------------------------------------
(* C25: every complete index record of declared length 28 or 32 yields      *)
(* exactly one IndicesQuote.  Counting the u32 of the record from 1: the    *)
(* token is the 1st, the last price the 2nd, high the 3rd, low the 4th,     *)
(* open the 5th, close the 6th, each price over the token's divisor.  The   *)
(* record takes exactly L bytes: the record after it is decoded from its    *)
(* own bytes and the cursor ends at the end of the frame.                   *)

\* The big-endian u32 at a 0-based offset of a byte buffer.
U32At(bytes, off) ==
    bytes[off + 1] * 16777216 + bytes[off + 2] * 65536
        + bytes[off + 3] * 256 + bytes[off + 4]

\* The 0-based offset of the payload of the i-th record of a whole frame.
RECURSIVE PayloadOffset(_, _)
PayloadOffset(f, i) ==
    IF i = 1 THEN 4 ELSE PayloadOffset(f, i - 1) + f.recs[i - 1].len + 2

IsIndexQuoteAt(t, bytes, off) ==
    LET token == U32At(bytes, off)
        d == DivisorRule(token)
    IN  /\ t.kind = "IndicesQuote"
        /\ t.instrument_token = token
        /\ PriceIs(t.last_price, U32At(bytes, off + 4), d)
        /\ PriceIs(t.ohlc.high, U32At(bytes, off + 8), d)
        /\ PriceIs(t.ohlc.low, U32At(bytes, off + 12), d)
        /\ PriceIs(t.ohlc.open, U32At(bytes, off + 16), d)
        /\ PriceIs(t.ohlc.close, U32At(bytes, off + 20), d)

HasIndexRecord(f) == \E i \in 1..Len(f.recs) : f.recs[i].len \in {28, 32}

C25_IndexRecord ==
    (decoded.done /\ Whole(frame) /\ HasIndexRecord(frame))
      => /\ ~decoded.panicked
         /\ Len(decoded.ticks) = KnownUpTo(frame.recs, Len(frame.recs))
         /\ decoded.pos = Len(WireFrame(frame))
         /\ \A i \in 1..Len(frame.recs) :
               LET k == KnownUpTo(frame.recs, i)
               IN  /\ frame.recs[i].len \in {28, 32}
                        => IsIndexQuoteAt(decoded.ticks[k], WireFrame(frame),
                                          PayloadOffset(frame, i))
                   /\ (i > 1 /\ frame.recs[i - 1].len \in {28, 32}
                             /\ frame.recs[i].len \in KnownLens)
                        => ExpectTick(decoded.ticks[k], frame.recs[i])

\* A 32-byte index record followed by a 28-byte one, both decoded.
C25_Witness ==
    /\ decoded.done
    /\ Whole(frame)
    /\ Len(frame.recs) = 2
    /\ frame.recs[1].len = 32
    /\ frame.recs[2].len = 28
    /\ frame.recs[1].seed # frame.recs[2].seed
    /\ Len(decoded.ticks) = 2
    /\ decoded.ticks[2].kind = "IndicesQuote"
    /\ decoded.ticks[1].ohlc.open # decoded.ticks[1].ohlc.high

-----------------------------------------------------------------------------
(* C26: the PartialQuote decoded from 44 bytes as a record of their own is  *)
(* equal, field for field, to the inner quote of the FullQuote decoded from *)
(* a complete 184-byte record starting with the same 44 bytes, whatever the *)
(* 140 bytes that follow.                                                   *)

C26_FullQuoteRefinesPartialQuote ==
    decoded.done
      => /\ ~decoded.panicked
         /\ Len(decoded.ticks) = 2
         /\ decoded.ticks[1].kind = "PartialQuote"
         /\ decoded.ticks[2].kind = "FullQuote"
         /\ decoded.ticks[2].quote = decoded.ticks[1].quote

\* A prefix of one seed under a tail built from another.
C26_Witness ==
    /\ decoded.done
    /\ frame.prefix = 0 /\ frame.tail = 2 /\ frame.shift = 3
    /\ Len(decoded.ticks) = 2
    /\ decoded.ticks[2].kind = "FullQuote"
    /\ decoded.ticks[2].oi # WireWord(0, 12)
    /\ decoded.ticks[1].quote.last_price = [int |-> 1412, frac |-> 9500000]

-----------------------------------------------------------------------------
(* C27: with several consumers receiving from clones of the Receiver, every *)
(* Tick pushed is delivered to exactly one consumer, none twice and none    *)
(* lost; each consumer sees its Ticks in an order consistent with the push  *)
(* order; and the ConnectionClosed sentinel, being single, is observed by   *)
(* only one consumer.                                                       *)

RECURSIVE SumSeen(_)
SumSeen(c) == IF c = 0 THEN 0 ELSE Len(seen[c]) + SumSeen(c - 1)

\* q consists of elements of r taken in r's order.
RECURSIVE IsSubsequence(_, _)
IsSubsequence(q, r) ==
    IF q = <<>> THEN TRUE
    ELSE IF r = <<>> THEN FALSE
    ELSE IF Head(q) = Head(r) THEN IsSubsequence(Tail(q), Tail(r))
    ELSE IsSubsequence(q, Tail(r))

\* Pushed Ticks are queued or delivered, each once, to one consumer.
DeliveredOnce ==
    /\ delivered \o chan = sent
    /\ SumSeen(MaxReceivers) = Len(delivered)

OrderKept == \A c \in 1..MaxReceivers : IsSubsequence(seen[c], sent)

SentinelObservers ==
    {c \in 1..MaxReceivers :
        \E i \in 1..Len(seen[c]) : seen[c][i] = ConnectionClosed}

C27_EachTickToOneConsumer ==
    /\ DeliveredOnce
    /\ OrderKept
    /\ Cardinality(SentinelObservers) <= 1

-----------------------------------------------------------------------------
(* C28: decoding a frame is not atomic for the channel.  When decoding      *)
(* fails at the k-th record of a frame, k > 1, the Ticks of records 1..k-1  *)
(* have been pushed and stay: they are the last Ticks pushed, nothing was   *)
(* pushed for the records from k on, and each is still queued or has been   *)
(* received.                                                                *)

\* The record at which decoding a bad frame fails: the truncated last one, or
\* the one announced after the last one present.
FailingRecord(f) == IF f.cut > 0 THEN Len(f.recs) ELSE Len(f.recs) + 1

C28_FrameNotAtomic ==
    (task = "panicked" /\ receivers > 0)
      => LET f == inbound[Len(inbound)].frame
             k == FailingRecord(f)
             before == InboundTicks(SubSeq(inbound, 1, Len(inbound) - 1))
         IN  /\ inbound[Len(inbound)].kind = "Binary"
             /\ k > 1
                  => /\ Len(sent) = Len(before) + KnownUpTo(f.recs, k - 1)
                     /\ SubSeq(sent, 1, Len(before)) = before
                     /\ \A i \in 1..(k - 1) :
                           f.recs[i].len \in KnownLens
                             => ExpectTick(sent[Len(before) + KnownUpTo(f.recs, i)],
                                           f.recs[i])
                     /\ delivered \o chan = sent

\* Decoding failed at the second record; the Tick of the first is queued.
C28_Witness ==
    /\ task = "panicked"
    /\ receivers > 0
    /\ Len(inbound) = 2
    /\ inbound[2].frame = [count |-> 2, recs |-> <<Rec(8, 0), Rec(44, 1)>>, cut |-> 10]
    /\ chan # <<>>
    /\ chan[Len(chan)].kind = "LtpQuote"
    /\ chan[Len(chan)].instrument_token = WireToken(0)
    /\ Len(sent) >= 2

-----------------------------------------------------------------------------
(* C29: however the task ended, its Sender is released and no Tick pushed   *)
(* is lost.  A consumer that keeps calling recv gets the Ticks in push      *)
(* order, and when recv reports the disconnection the task has ended, the   *)
(* channel is empty and the consumer has received every Tick pushed.        *)

\* The consumer's loop has ended on the error of recv.
DisconnectionReported == receivers = 0

C29_NothingLostAtTermination ==
    /\ IsPrefix(delivered, sent)
    /\ delivered \o chan = sent
    /\ DisconnectionReported
         => (SenderReleased /\ chan = <<>> /\ delivered = sent)

\* The task died decoding the second record; the Tick of the first record
\* was received before the disconnection was reported.
C29_Witness ==
    /\ DisconnectionReported
    /\ task = "panicked"
    /\ delivered # <<>>
    /\ delivered = sent

-----------------------------------------------------------------------------
\* C30: when the inbound half eventually yields its end or a closed-
\* connection error, the background task eventually terminates and a pending
\* wait_handle eventually returns; wait_handle returns normally however the
\* task ended (a panic while decoding included), and never while the task
\* is still running.
C30_WaitHandleReturnsAfterTask ==
    /\ [](ticker = "returned" => (SenderReleased /\ result = "Returned"))
    /\ <>SenderReleased
    /\ (ticker = "waiting") ~> (ticker = "returned")

C30_Witness ==
    /\ ticker = "returned"
    /\ result = "Returned"
    /\ task = "panicked"
    /\ \E i \in 1..Len(inbound) : inbound[i].kind = "Binary"

====
